---- MODULE Spec2Model ----
(***************************************************************************)
(* Reverse-mode automatic differentiation over a dynamically built graph   *)
(* of scalar values (src/src/autograd.rs), and the training loop that      *)
(* drives it (src/src/main.rs, src/src/nn.rs).                             *)
(*                                                                         *)
(* A Value is a record of the heap `nodes`; its identity (the Uuid label)  *)
(* is its index in the heap.  f64 numbers are fixed-point integers with    *)
(* four decimals: the f64 v is the integer v * SCALE, and a product or a   *)
(* quotient is rounded to the nearest representable number.                *)
(***************************************************************************)
EXTENDS Integers, Sequences, FiniteSets

VARIABLES
    nodes,   \* the heap of Values, in creation order
    pc,      \* "done": the caller's last call was a backward call; else "idle"
    root,    \* history: the Value that call was made on (0 when idle)
    topo,    \* history: the call's local `topo`, as topological_sort filled it
    grad0,   \* history: every Value's grad at the entry of that call
    proc,    \* history: the Values backward_step ran on, in order, each with
             \*          the grad it had at that moment
    passes,  \* how many backward calls were made
    tpc,     \* main's position in the training loop ("off" outside of it)
    iter     \* main's loop counter k

vars == <<nodes, pc, root, topo, grad0, proc, passes, tpc, iter>>

----------------------------------------------------------------------------
(* Bounds of the model *)

\* at most this many builder calls, each returning one Tensor
MaxTensors == 3
\* a behaviour is followed up to its MaxBackward-th backward call
MaxBackward == 2
\* a builder call is taken only when the f64 it computes is within +-MaxAbs
MaxAbs == 40
\* the training loop: the inputs of the network (2 in main), the neurons
\* of its hidden layer (two hidden layers of 16 in main, one here), the
\* samples of the training set (100 in main) and the iterations of the
\* loop (100 in main)
NumberOfInputs == 1
HiddenNeurons == 1
TrainingLen == 1
NumberOfIterations == 2

----------------------------------------------------------------------------
(* Fixed-point arithmetic *)

SCALE == 10 * 1000
ONE == SCALE

Abs(a) == IF a < 0 THEN -a ELSE a

Range(t) == {t[i] : i \in DOMAIN t}

\* F of the value of x, x evaluated once
Bind(x, F(_)) == CHOOSE r \in {F(y) : y \in {x}} : TRUE

\* a * b, rounded to the nearest multiple of 1/SCALE
FMul(a, b) ==
    LET ah == a \div SCALE
        al == a % SCALE
        bh == b \div SCALE
        bl == b % SCALE
    IN  ah * bh * SCALE + ah * bl + al * bh + (al * bl + SCALE \div 2) \div SCALE

\* a / b for b # 0, rounded to the nearest multiple of 1/SCALE
FDiv(a, b) ==
    LET n == IF b < 0 THEN -a ELSE a
        d == Abs(b)
    IN  (2 * n * SCALE + d) \div (2 * d)

\* f64::powf(x, n) for an integral exponent n (x # 0 when n < 0)
RECURSIVE powf(_, _)
powf(x, n) ==
    IF n = 0 THEN ONE
    ELSE IF n < 0 THEN FDiv(ONE, powf(x, -n))
    ELSE FMul(x, powf(x, n - 1))

\* 1/e
EInv == 3679

\* the Taylor series of e^(-f), 0 <= f < 1: the terms from the k-th on
RECURSIVE ExpSeries(_, _, _)
ExpSeries(f, k, term) ==
    IF k > 10 \/ term = 0 THEN 0
    ELSE term + ExpSeries(f, k + 1, -FDiv(FMul(term, f), k * ONE))

\* E.powf(-x) for x >= 0
ExpNeg(x) ==
    IF x >= 12 * ONE THEN 0
    ELSE FMul(powf(EInv, x \div SCALE), ExpSeries(x % SCALE, 1, ONE))

\* (E.powf(2d) - 1) / (E.powf(2d) + 1); numerator and denominator are both
\* divided by E.powf(2|d|), which keeps the fixed-point numbers in range
tanh_value(d) ==
    LET u == ExpNeg(2 * Abs(d))
        t == FDiv(ONE - u, ONE + u)
    IN  IF d < 0 THEN -t ELSE t

----------------------------------------------------------------------------
(* Values and the builder operations, as functions of the heap.  The new   *)
(* Value of a call is the last one of the heap the call returns.  The      *)
(* field `by` records the call that created the Value; a Value created     *)
(* inside pow, sub or div that the call does not return is not reachable   *)
(* by the caller as a Tensor.                                              *)

Ops == {"None", "Sum", "Mul", "Pow", "Tanh"}

Public == {"new", "add", "mul", "tanh", "pow", "sub", "div"}

Node(data, grad, op, x, y, by) ==
    [data |-> data, grad |-> grad, op |-> op, x |-> x, y |-> y, by |-> by]

Retag(h, i, by) == [h EXCEPT ![i].by = by]

value(h, data, grad) == Append(h, Node(data, grad, "None", 0, 0, "new"))

new_with_grad(h, data, grad) == value(h, data, grad)

new(h, data) == new_with_grad(h, data, 0)

\* add with the new Value itself as its first operand
add_self(h, self, other) ==
    Append(h, Node(h[self].data + h[other].data, 0, "Sum", Len(h) + 1, other, "add"))

add(h, self, other) ==
    Append(h, Node(h[self].data + h[other].data, 0, "Sum", self, other, "add"))

mul(h, self, other) ==
    Append(h, Node(FMul(h[self].data, h[other].data), 0, "Mul", self, other, "mul"))

tanh(h, self) ==
    Append(h, Node(tanh_value(h[self].data), 0, "Tanh", self, 0, "tanh"))

\* the exponent's Value is created while the Pow Value is being built
pow(h, self, other) ==
    Bind(Retag(value(h, other, 0), Len(h) + 1, "pow.y"), LAMBDA h1 :
        Append(h1, Node(powf(h[self].data, other \div SCALE), 0, "Pow",
                        self, Len(h1), "pow")))

\* sub multiplying by leaf(1.0)
sub_plus(h, self, other) ==
    Bind(Retag(new(h, ONE), Len(h) + 1, "sub.new"), LAMBDA h1 :
    Bind(Retag(mul(h1, other, Len(h1)), Len(h1) + 1, "sub.mul"), LAMBDA h2 :
    Bind(add(h2, self, Len(h2)), LAMBDA h3 :
        Retag(h3, Len(h3), "sub"))))

sub(h, self, other) ==
    Bind(Retag(new(h, -ONE), Len(h) + 1, "sub.new"), LAMBDA h1 :
    Bind(Retag(mul(h1, other, Len(h1)), Len(h1) + 1, "sub.mul"), LAMBDA h2 :
    Bind(add(h2, self, Len(h2)), LAMBDA h3 :
        Retag(h3, Len(h3), "sub"))))

div(h, self, other) ==
    Bind(pow(h, other, -ONE), LAMBDA h1 :
    Bind(Retag(h1, Len(h1), "div.pow"), LAMBDA h2 :
    Bind(mul(h2, self, Len(h2)), LAMBDA h3 :
        Retag(h3, Len(h3), "div"))))

\* the Values the caller holds as Tensors
Tensors(h) == {i \in 1..Len(h) : h[i].by \in Public}

----------------------------------------------------------------------------
(* topological_sort *)

prev(h, v) ==
    CASE h[v].op = "None" -> <<>>
      [] h[v].op = "Sum"  -> <<h[v].x, h[v].y>>
      [] h[v].op = "Mul"  -> <<h[v].x, h[v].y>>
      [] h[v].op = "Pow"  -> <<h[v].x, h[v].y>>
      [] h[v].op = "Tanh" -> <<h[v].x>>

RECURSIVE topological_sort(_, _, _)
RECURSIVE sort_prev(_, _, _)

\* topological_sort without `visited.insert(value.label)`
topological_sort_revisit(h, v, st) ==
    IF v \in st.visited THEN st
    ELSE LET st2 == sort_prev(h, prev(h, v), st)
         IN  [st2 EXCEPT !.topo = Append(@, v)]

\* the loop `for v in prev(value) { topological_sort(v, topo, visited) }`
sort_prev(h, vs, st) ==
    IF vs = <<>> THEN st
    ELSE sort_prev(h, Tail(vs), topological_sort(h, Head(vs), st))

\* st is the pair of the two &mut arguments, topo and visited
topological_sort(h, v, st) ==
    IF v \in st.visited THEN st
    ELSE LET st1 == [st EXCEPT !.visited = @ \cup {v}]
             st2 == sort_prev(h, prev(h, v), st1)
         IN  [st2 EXCEPT !.topo = Append(@, v)]

----------------------------------------------------------------------------
(* backward_step *)

\* local_derivative with the Tanh arm squaring the operand's value
local_derivative_operand(h, v, slot) ==
    CASE h[v].op = "Sum"  -> ONE
      [] h[v].op = "Mul"  -> IF slot = 1 THEN h[h[v].y].data ELSE h[h[v].x].data
      [] h[v].op = "Pow"  ->
            FMul(h[h[v].y].data,
                 powf(h[h[v].x].data, (h[h[v].y].data - ONE) \div SCALE))
      [] h[v].op = "Tanh" -> ONE - powf(h[h[v].x].data, 2)

\* local_derivative with the Mul arm giving each operand its own value
local_derivative_uncrossed(h, v, slot) ==
    CASE h[v].op = "Sum"  -> ONE
      [] h[v].op = "Mul"  -> IF slot = 1 THEN h[h[v].x].data ELSE h[h[v].y].data
      [] h[v].op = "Pow"  ->
            FMul(h[h[v].y].data,
                 powf(h[h[v].x].data, (h[h[v].y].data - ONE) \div SCALE))
      [] h[v].op = "Tanh" -> ONE - powf(h[v].data, 2)

\* the x_local_derivative / y_local_derivative of each arm (slot 1 is x,
\* slot 2 is y); Pow has none for y
local_derivative(h, v, slot) ==
    CASE h[v].op = "Sum"  -> ONE
      [] h[v].op = "Mul"  -> IF slot = 1 THEN h[h[v].y].data ELSE h[h[v].x].data
      [] h[v].op = "Pow"  ->
            FMul(h[h[v].y].data,
                 powf(h[h[v].x].data, (h[h[v].y].data - ONE) \div SCALE))
      [] h[v].op = "Tanh" -> ONE - powf(h[v].data, 2)

\* accumulate adding into the operand's data
accumulate_data(h, x, d, v) == [h EXCEPT ![x].data = @ + FMul(d, h[v].grad)]

\* accumulate with `=` for `+=`
accumulate_overwrite(h, x, d, v) == [h EXCEPT ![x].grad = FMul(d, h[v].grad)]

\* `*x.grad.borrow_mut() += d * *value.grad.borrow()`
accumulate(h, x, d, v) == [h EXCEPT ![x].grad = @ + FMul(d, h[v].grad)]

\* backward_step with the Pow arm routing a contribution to the exponent
backward_step_pow_y(h, v) ==
    CASE h[v].op = "None" -> h
      [] h[v].op \in {"Sum", "Mul", "Pow"} ->
            Bind(accumulate(h, h[v].x, local_derivative(h, v, 1), v), LAMBDA h1 :
                accumulate(h1, h[v].y, local_derivative(h1, v, 2), v))
      [] h[v].op = "Tanh" ->
            accumulate(h, h[v].x, local_derivative(h, v, 1), v)

backward_step(h, v) ==
    CASE h[v].op = "None" -> h
      [] h[v].op \in {"Sum", "Mul"} ->
            Bind(accumulate(h, h[v].x, local_derivative(h, v, 1), v), LAMBDA h1 :
                accumulate(h1, h[v].y, local_derivative(h1, v, 2), v))
      [] h[v].op \in {"Pow", "Tanh"} ->
            accumulate(h, h[v].x, local_derivative(h, v, 1), v)

\* the i-th Value of `topo.iter()`
rev_forward(t, i) == t[i]

\* the i-th Value of `topo.iter().rev()`
rev(t, i) == t[Len(t) + 1 - i]

\* seed after zeroing every grad
seed_zeroing(h, r) ==
    [i \in 1..Len(h) |-> [h[i] EXCEPT !.grad = IF i = r THEN ONE ELSE 0]]

\* `*self.grad.borrow_mut() = 1.0`
seed(h, r) == [h EXCEPT ![r].grad = ONE]

\* one iteration of the loop `for v in topo.iter().rev() { backward_step(v) }`,
\* the i-th; e is the heap with the history of the iterations before
backward_iteration(e, t, i) ==
    [nodes |-> backward_step(e.nodes, rev(t, i)),
     proc  |-> Append(e.proc, [node |-> rev(t, i), grad |-> e.nodes[rev(t, i)].grad])]

\* the iterations lo..hi of the loop, in order: the first half of them,
\* then the second half
RECURSIVE backward_loop(_, _, _, _)
backward_loop(e, t, lo, hi) ==
    IF lo > hi THEN e
    ELSE IF lo = hi THEN backward_iteration(e, t, lo)
    ELSE Bind(backward_loop(e, t, lo, (lo + hi) \div 2), LAMBDA e1 :
            backward_loop(e1, t, (lo + hi) \div 2 + 1, hi))

\* Tensor::backward: the heap it leaves, with its topo and the history
backward(h, r) ==
    Bind(seed(h, r), LAMBDA h1 :
    Bind(topological_sort(h1, r, [topo |-> <<>>, visited |-> {}]).topo, LAMBDA t :
    Bind(backward_loop([nodes |-> h1, proc |-> <<>>], t, 1, Len(t)), LAMBDA e :
        [nodes |-> e.nodes, topo |-> t, proc |-> e.proc])))

----------------------------------------------------------------------------
(* The caller of the library: any sequence of builder calls and backward   *)
(* calls.                                                                  *)

LeafData == {2 * ONE, 3 * ONE}
SeededData == {3 * ONE}
LeafGrad == {ONE \div 2}
Exponents == {2 * ONE, 3 * ONE}

InRange(h) == \A i \in 1..Len(h) : Abs(h[i].data) <= MaxAbs * ONE

\* the history of the last backward call is dropped
Forget ==
    /\ pc' = "idle"
    /\ root' = 0
    /\ topo' = <<>>
    /\ grad0' = <<>>
    /\ proc' = <<>>

\* a builder call returns the heap h
Built(h) ==
    /\ tpc = "off"
    /\ passes < MaxBackward
    /\ Cardinality(Tensors(nodes)) < MaxTensors
    /\ InRange(h)
    /\ nodes' = h
    /\ Forget
    /\ UNCHANGED <<passes, tpc, iter>>

CallNew == \E d \in LeafData : Built(new(nodes, d))

CallNewWithGrad ==
    \E d \in SeededData, g \in LeafGrad : Built(new_with_grad(nodes, d, g))

CallAdd == \E a, b \in Tensors(nodes) : Built(add(nodes, a, b))

CallMul == \E a, b \in Tensors(nodes) : Built(mul(nodes, a, b))

CallTanh == \E a \in Tensors(nodes) : Built(tanh(nodes, a))

CallPow == \E a \in Tensors(nodes), n \in Exponents : Built(pow(nodes, a, n))

CallSub == \E a, b \in Tensors(nodes) : Built(sub(nodes, a, b))

\* other^-1 and its derivative -other^-2 are representable and in range
Invertible(d) ==
    /\ d # 0
    /\ powf(d, 2) # 0
    /\ Abs(powf(d, -2)) <= MaxAbs * ONE

CallDiv ==
    \E a, b \in Tensors(nodes) :
        /\ Invertible(nodes[b].data)
        /\ Built(div(nodes, a, b))

\* the call r.backward(), with the history of what it did
Backward(r) ==
    /\ LET b == backward(nodes, r)
       IN  /\ nodes' = b.nodes
           /\ topo' = b.topo
           /\ proc' = b.proc
    /\ pc' = "done"
    /\ root' = r
    /\ grad0' = [i \in 1..Len(nodes) |-> nodes[i].grad]
    /\ passes' = passes + 1

CallBackward ==
    \E r \in Tensors(nodes) :
        /\ tpc = "off"
        /\ passes < MaxBackward
        /\ Backward(r)
        /\ UNCHANGED <<tpc, iter>>

----------------------------------------------------------------------------
(* The caller of the unit test backward_on_tanh_should_add_gradient_to_    *)
(* the_variable and its like: leaves around 0.8814, with and without a     *)
(* gradient, tanh and backward.                                            *)

\* the leaf's value, 0.8814
Scenario3Data == 8814
\* the leaf's gradient before the call, 0.5
Scenario3Grad == 5000
\* the asserted gradient, 0.9999813233768232, to four decimals
Scenario3Expected == 10000
\* two numbers this close are approximately equal
Tolerance == SCALE \div 2000

ScenarioData == {Scenario3Data, -Scenario3Data, 0}

ScenarioNew == \E d \in ScenarioData : Built(new(nodes, d))

ScenarioNewWithGrad ==
    \E d \in ScenarioData : Built(new_with_grad(nodes, d, Scenario3Grad))

----------------------------------------------------------------------------
(* nn.rs: the network.  Mlp::new creates the parameters first, so they     *)
(* are the Values 1..NumParams of the heap: layer by layer, neuron by      *)
(* neuron, the weights of a neuron and then its bias.                      *)

\* `n` of Mlp::new: the number of inputs, then the neurons of each layer
Sizes == <<NumberOfInputs, HiddenNeurons, 1>>

NumLayers == Len(Sizes) - 1

\* the parameters of the layers before layer l
RECURSIVE ParamsBefore(_)
ParamsBefore(l) ==
    IF l = 1 THEN 0
    ELSE ParamsBefore(l - 1) + Sizes[l] * (Sizes[l - 1] + 1)

NumParams == ParamsBefore(NumLayers + 1)

\* neuron j of layer l: its weights and its bias
NeuronBase(l, j) == ParamsBefore(l) + (j - 1) * (Sizes[l] + 1)
weights(l, j) == [i \in 1..Sizes[l] |-> NeuronBase(l, j) + i]
bias(l, j) == NeuronBase(l, j) + Sizes[l] + 1

\* Mlp::parameters
parameters == [i \in 1..NumParams |-> i]

Biases == UNION {{bias(l, j) : j \in 1..Sizes[l + 1]} : l \in 1..NumLayers}

\* the loop of Neuron::process from its k-th pair on; sum is the running sum
RECURSIVE neuron_sum(_, _, _, _, _)
neuron_sum(h, ws, xs, k, sum) ==
    IF k > Len(ws) \/ k > Len(xs) THEN [h |-> h, sum |-> sum]
    ELSE Bind(mul(h, ws[k], xs[k]), LAMBDA h1 :
         Bind(add(h1, sum, Len(h1)), LAMBDA h2 :
            neuron_sum(h2, ws, xs, k + 1, Len(h2))))

\* Neuron::process: the heap it leaves; its result is the last Value
neuron_process(h, l, j, inputs) ==
    Bind(new(h, 0), LAMBDA h0 :
    Bind(neuron_sum(h0, weights(l, j), inputs, 1, Len(h0)), LAMBDA r :
    Bind(add(r.h, r.sum, bias(l, j)), LAMBDA h1 :
        tanh(h1, Len(h1)))))

\* Layer::process from its j-th neuron on; outs collects the results
RECURSIVE layer_process(_, _, _, _, _)
layer_process(h, l, j, inputs, outs) ==
    IF j > Sizes[l + 1] THEN [h |-> h, outs |-> outs]
    ELSE Bind(neuron_process(h, l, j, inputs), LAMBDA h1 :
            layer_process(h1, l, j + 1, inputs, Append(outs, Len(h1))))

\* `inputs.iter().map(|i| Tensor::new(*i))` from the k-th input on
RECURSIVE input_tensors(_, _, _, _)
input_tensors(h, xs, k, outs) ==
    IF k > Len(xs) THEN [h |-> h, outs |-> outs]
    ELSE Bind(new(h, xs[k]), LAMBDA h1 :
            input_tensors(h1, xs, k + 1, Append(outs, Len(h1))))

\* the loop over the layers of Mlp::process from layer l on
RECURSIVE mlp_layers(_, _, _)
mlp_layers(h, l, x) ==
    IF l > NumLayers THEN [h |-> h, outs |-> x]
    ELSE Bind(layer_process(h, l, 1, x, <<>>), LAMBDA r :
            mlp_layers(r.h, l + 1, r.outs))

\* Mlp::process
mlp_process(h, inputs) ==
    Bind(input_tensors(h, inputs, 1, <<>>), LAMBDA r :
        mlp_layers(r.h, 1, r.outs))

\* Mlp::zero_grad with the biases left out
zero_grad_weights(h) ==
    [i \in 1..Len(h) |->
        IF i \in Range(parameters) \ Biases THEN [h[i] EXCEPT !.grad = 0] ELSE h[i]]

\* Mlp::zero_grad
zero_grad(h) ==
    [i \in 1..Len(h) |->
        IF i \in Range(parameters) THEN [h[i] EXCEPT !.grad = 0] ELSE h[i]]

----------------------------------------------------------------------------
(* main.rs: the training loop.                                             *)

\* the values rng.sample(rng_range()) gives the parameters
ParamData == {-ONE \div 2, ONE \div 2}

\* the s-th row of the training set: the inputs and the label
Sample(s) ==
    [inputs |-> [i \in 1..NumberOfInputs |->
                    IF (s + i) % 2 = 0 THEN ONE ELSE -ONE \div 2],
     label  |-> IF s % 2 = 1 THEN ONE ELSE -ONE]

\* the forward pass over the training set from its s-th row on
RECURSIVE forward_rows(_, _, _)
forward_rows(h, s, loss) ==
    IF s > TrainingLen THEN [h |-> h, loss |-> loss]
    ELSE Bind(mlp_process(h, Sample(s).inputs), LAMBDA r :
         Bind(new(r.h, Sample(s).label), LAMBDA h1 :
         Bind(sub(h1, Len(h1), r.outs[1]), LAMBDA h2 :
         Bind(pow(h2, Len(h2), 2 * ONE), LAMBDA h3 :
         Bind(add(h3, loss, Len(h3)), LAMBDA h4 :
            forward_rows(h4, s + 1, Len(h4)))))))

\* the forward pass of one iteration: the heap it leaves, loss the last Value
forward(h) ==
    Bind(new(h, 0), LAMBDA h0 :
    Bind(forward_rows(h0, 1, Len(h0)), LAMBDA r :
    Bind(new(r.h, ONE), LAMBDA h1 :
    Bind(new(h1, TrainingLen * ONE), LAMBDA h2 :
    Bind(div(h2, Len(h1), Len(h2)), LAMBDA h3 :
        mul(h3, r.loss, Len(h3)))))))

\* `1.0 - 0.9 * (k as f64) / number_of_iterations as f64`
learning_rate(k) == ONE - FDiv(FMul((9 * ONE) \div 10, k * ONE), NumberOfIterations * ONE)

\* the update of the parameters
update(h, k) ==
    [i \in 1..Len(h) |->
        IF i \in Range(parameters)
        THEN [h[i] EXCEPT !.data = @ - FMul(h[i].grad, learning_rate(k))]
        ELSE h[i]]

\* the Values of the previous iteration are dropped, the parameters stay;
\* then the forward pass
Forward ==
    /\ tpc = "forward"
    /\ nodes' = forward(SubSeq(nodes, 1, NumParams))
    /\ tpc' = "zero"
    /\ UNCHANGED <<pc, root, topo, grad0, proc, passes, iter>>

ZeroGrad ==
    /\ tpc = "zero"
    /\ nodes' = zero_grad(nodes)
    /\ tpc' = "backward"
    /\ UNCHANGED <<pc, root, topo, grad0, proc, passes, iter>>

LossBackward ==
    /\ tpc = "backward"
    /\ Backward(Len(nodes))
    /\ tpc' = "update"
    /\ UNCHANGED iter

Update ==
    /\ tpc = "update"
    /\ nodes' = update(nodes, iter)
    /\ iter' = iter + 1
    /\ tpc' = IF iter + 1 < NumberOfIterations THEN "forward" ELSE "end"
    /\ Forget
    /\ UNCHANGED passes

\* after Mlp::new
TrainInit ==
    /\ \E v \in [1..NumParams -> ParamData] :
          nodes = [i \in 1..NumParams |-> Node(v[i], 0, "None", 0, 0, "new")]
    /\ pc = "idle"
    /\ root = 0
    /\ topo = <<>>
    /\ grad0 = <<>>
    /\ proc = <<>>
    /\ passes = 0
    /\ tpc = "forward"
    /\ iter = 0

TrainNext ==
    \/ Forward
    \/ ZeroGrad
    \/ LossBackward
    \/ Update

TrainSpec == TrainInit /\ [][TrainNext]_vars

Init ==
    /\ nodes = <<>>
    /\ pc = "idle"
    /\ root = 0
    /\ topo = <<>>
    /\ grad0 = <<>>
    /\ proc = <<>>
    /\ passes = 0
    /\ tpc = "off"
    /\ iter = 0

Next ==
    \/ CallNew
    \/ CallNewWithGrad
    \/ CallAdd
    \/ CallMul
    \/ CallTanh
    \/ CallPow
    \/ CallSub
    \/ CallDiv
    \/ CallBackward

Spec == Init /\ [][Next]_vars

ScenarioNext ==
    \/ ScenarioNew
    \/ ScenarioNewWithGrad
    \/ CallTanh
    \/ CallBackward

ScenarioSpec == Init /\ [][ScenarioNext]_vars

----------------------------------------------------------------------------
(* What the claims are stated with.  These read the fields of the heap     *)
(* directly and use none of prev, topological_sort or backward.            *)

\* the Values a Value references through its producer edges
Operands(h, v) == {h[v].x, h[v].y} \ {0}

\* the Values reachable from the set S through producer edges
RECURSIVE ReachFrom(_, _)
ReachFrom(h, S) ==
    LET T == S \cup UNION {Operands(h, v) : v \in S}
    IN  IF T = S THEN S ELSE ReachFrom(h, T)

Reach(h, r) == ReachFrom(h, {r})

\* the local derivative of consumer c for an operand slot; the Pow arm
\* has none for its exponent
SlotDerivative(h, c, slot) ==
    IF h[c].op = "Pow" /\ slot = 2 THEN 0 ELSE local_derivative(h, c, slot)

\* what consumer c contributes to n over its operand slots, at c's grad
SlotContribution(h, c, n) ==
    (IF h[c].x = n THEN FMul(SlotDerivative(h, c, 1), h[c].grad) ELSE 0)
  + (IF h[c].y = n THEN FMul(SlotDerivative(h, c, 2), h[c].grad) ELSE 0)

\* the sum of the contributions to n of the consumers in R among 1..c
RECURSIVE Contributions(_, _, _, _)
Contributions(h, R, n, c) ==
    IF c = 0 THEN 0
    ELSE (IF c \in R THEN SlotContribution(h, c, n) ELSE 0)
         + Contributions(h, R, n, c - 1)

\* the operand slots of consumers in R that reference n
Slots(h, R, n) ==
    {cs \in R \X {1, 2} :
        IF cs[2] = 1 THEN h[cs[1]].x = n ELSE h[cs[1]].y = n}

Consumers(h, R, n) == {c \in R : n \in Operands(h, c)}

Done == pc = "done"

\* C1: the order topological_sort(root) produces holds every Value
\* reachable from root exactly once, no other Value, and every Value after
\* all of its operands.
C1_TopologicalOrder ==
    Done =>
        /\ \A i, j \in DOMAIN topo : topo[i] = topo[j] => i = j
        /\ Range(topo) = Reach(nodes, root)
        /\ \A i \in DOMAIN topo :
             \A o \in Operands(nodes, topo[i]) :
                \E j \in 1..(i - 1) : topo[j] = o

\* a sorted graph in which a Value is referenced through several operand
\* slots and two distinct leaves hold the same number
C1_Witness ==
    /\ Done
    /\ \E n \in Reach(nodes, root) :
          Cardinality(Slots(nodes, Reach(nodes, root), n)) >= 2
    /\ \E a, b \in Reach(nodes, root) :
          /\ a # b
          /\ nodes[a].op = "None" /\ nodes[b].op = "None"
          /\ nodes[a].data = nodes[b].data

\* C2: after backward(root), a Value referenced through k >= 1 operand
\* slots of consumers reachable from root has its grad of before the call
\* plus the k contributions local derivative * the consumer's final grad.
C2_Accumulation ==
    Done =>
        LET R == Reach(nodes, root)
        IN  \A n \in 1..Len(nodes) :
                Slots(nodes, R, n) # {} =>
                    nodes[n].grad
                      = grad0[n] + Contributions(nodes, R, n, Len(nodes))

\* a Value with a gradient before the call, referenced by two consumers
\* through three operand slots
C2_Witness ==
    /\ Done
    /\ \E n \in 1..Len(nodes) :
          /\ Cardinality(Consumers(nodes, Reach(nodes, root), n)) >= 2
          /\ Cardinality(Slots(nodes, Reach(nodes, root), n)) >= 3
          /\ grad0[n] # 0
          /\ nodes[n].grad # grad0[n]

\* d v / d l for a graph of leaves, Sum and Mul over whole numbers, by
\* forward differentiation: the sum over the paths from v to l of the
\* product of the local derivatives
RECURSIVE Partial(_, _, _)
Partial(h, v, l) ==
    IF v = l THEN 1
    ELSE CASE h[v].op = "Sum" -> Partial(h, h[v].x, l) + Partial(h, h[v].y, l)
           [] h[v].op = "Mul" ->
                (h[h[v].y].data \div SCALE) * Partial(h, h[v].x, l)
              + (h[h[v].x].data \div SCALE) * Partial(h, h[v].y, l)
           [] OTHER -> 0

SumProduct(h, R) ==
    \A n \in R : h[n].op \in {"None", "Sum", "Mul"} /\ h[n].data % SCALE = 0

Seed(r, n) == IF n = r THEN ONE ELSE 0

\* C4 as stated: every Value reachable from root, root included, keeps the
\* grad it had before the call, the call's contributions (and the seed)
\* added on top.
C4_AllKept ==
    Done =>
        LET R == Reach(nodes, root)
        IN  \A n \in R :
                nodes[n].grad
                  = grad0[n] + Seed(root, n) + Contributions(nodes, R, n, Len(nodes))

\* C4, amended: backward overwrites the grad of root with 1.0; every other
\* Value keeps the grad it had before the call, the call's contributions
\* added on top, also in a second call on the same graph.
C4_OthersKept ==
    Done =>
        LET R == Reach(nodes, root)
        IN  /\ nodes[root].grad = ONE
            /\ \A n \in 1..Len(nodes) :
                  n # root =>
                    nodes[n].grad - Contributions(nodes, R, n, Len(nodes))
                      = grad0[n]

\* a second call, on a graph where an intermediate Value holds what the
\* first call left and a leaf holds a pre-seeded grad
C4_Witness ==
    /\ Done
    /\ passes = 2
    /\ \E n \in Reach(nodes, root) \ {root} :
          nodes[n].op # "None" /\ grad0[n] # 0 /\ nodes[n].grad # grad0[n]
    /\ \E l \in Reach(nodes, root) \ {root} :
          nodes[l].op = "None" /\ grad0[l] # 0 /\ nodes[l].grad # grad0[l]

\* n^k over the integers
RECURSIVE IntPow(_, _)
IntPow(n, k) == IF k = 0 THEN 1 ELSE n * IntPow(n, k - 1)

\* C5: the exponent leaf of a Pow Value keeps grad 0 through every
\* backward call, and a call adds n * x^(n-1) * g to the base x (stated
\* for a whole x, n >= 1, and a base that only this Pow references).
C5_ExponentFrozen ==
    \A p \in 1..Len(nodes) :
        nodes[p].op = "Pow" =>
            /\ nodes[nodes[p].y].grad = 0
            /\ LET R == Reach(nodes, root)
                   b == nodes[p].x
                   n == nodes[nodes[p].y].data \div SCALE
                   x == nodes[b].data \div SCALE
               IN  (/\ Done
                    /\ p \in R
                    /\ Slots(nodes, R, b) = {<<p, 1>>}
                    /\ nodes[b].data % SCALE = 0
                    /\ n >= 1)
                     => nodes[b].grad
                          = grad0[b] + FMul(n * IntPow(x, n - 1) * ONE, nodes[p].grad)

\* a second backward call through a Pow Value that has a gradient
C5_Witness ==
    /\ Done
    /\ passes = 2
    /\ \E p \in Reach(nodes, root) :
          /\ nodes[p].op = "Pow"
          /\ nodes[p].grad # 0
          /\ nodes[nodes[p].y].data >= ONE
          /\ Slots(nodes, Reach(nodes, root), nodes[p].x) = {<<p, 1>>}
          /\ nodes[nodes[p].x].grad # grad0[nodes[p].x]

\* the root of the last backward call is tanh of the leaf a = 0.8814
Scenario3(a) ==
    /\ Done
    /\ nodes[root].op = "Tanh"
    /\ nodes[root].x = a
    /\ nodes[a].op = "None"
    /\ nodes[a].data = Scenario3Data

Near(u, w) == Abs(u - w) <= Tolerance

\* C6 as stated: with a = leaf(0.8814) of gradient 0 and x = tanh(a),
\* backward(x) leaves a.grad near 0.9999813233768232.
C6_FromZero ==
    \A a \in 1..Len(nodes) :
        (Scenario3(a) /\ grad0[a] = 0) => Near(nodes[a].grad, Scenario3Expected)

\* C6, amended: the Tanh rule adds (1 - x.value^2) * x.grad, about 0.49998,
\* to a.grad; a.grad is near 0.9999813233768232 when a held the gradient
\* 0.5 before the call, and near 0.49998 when it held 0.
C6_Seeded ==
    \A a \in 1..Len(nodes) :
        Scenario3(a) =>
            /\ nodes[a].grad
                 = grad0[a] + FMul(ONE - FMul(nodes[root].data, nodes[root].data),
                                   nodes[root].grad)
            /\ grad0[a] = Scenario3Grad => Near(nodes[a].grad, Scenario3Expected)
            /\ grad0[a] = 0 => Near(nodes[a].grad, Scenario3Expected - Scenario3Grad)

\* the unit test's call: a = 0.8814 with gradient 0.5, x = tanh(a),
\* x.backward()
C6_Witness ==
    /\ passes = 1
    /\ \E a \in 1..Len(nodes) :
          Scenario3(a) /\ grad0[a] = Scenario3Grad /\ nodes[a].grad # grad0[a]

\* sub(x, y) builds sum(x, product(y, leaf(-1))), of value x - y, out of
\* the Sum and Mul producers only
SubShape(r) ==
    LET m == nodes[r].y
        c == nodes[m].y
    IN  /\ nodes[r].op = "Sum"
        /\ m = r - 1 /\ nodes[m].op = "Mul" /\ nodes[m].by = "sub.mul"
        /\ c = r - 2 /\ nodes[c].op = "None" /\ nodes[c].by = "sub.new"
        /\ nodes[c].data = -ONE
        /\ nodes[r].x \in Tensors(nodes) /\ nodes[m].x \in Tensors(nodes)
        /\ nodes[r].data = nodes[nodes[r].x].data - nodes[nodes[m].x].data

\* the last call was backward on r = sub(a, b), a and b distinct leaves
SubOfLeaves(r) ==
    /\ Done
    /\ root = r
    /\ nodes[r].by = "sub"
    /\ nodes[r].x # nodes[nodes[r].y].x
    /\ nodes[nodes[r].x].op = "None"
    /\ nodes[nodes[nodes[r].y].x].op = "None"

\* C7 as stated: sub(x, y) builds sum(x, product(y, leaf(-1))), of value
\* x - y, and backward on r = sub(a, b), a and b distinct leaves, adds 1
\* to a.grad and -1 to b.grad.
C7_Sub ==
    \A r \in 1..Len(nodes) :
        nodes[r].by = "sub" =>
            /\ SubShape(r)
            /\ SubOfLeaves(r) =>
                  /\ nodes[nodes[r].x].grad = grad0[nodes[r].x] + ONE
                  /\ nodes[nodes[nodes[r].y].x].grad =
                        grad0[nodes[nodes[r].y].x] - ONE

\* C7, amended: sub(x, y) builds sum(x, product(y, leaf(-1))), of value
\* x - y, and backward on r = sub(a, b), a and b distinct leaves, adds 1
\* to a.grad and -(1 + g) to b.grad, g the grad the product Value inside r
\* had before the call: -1 on the first backward call through r, more on
\* a later one, the product Value keeping its grad between the calls.
C7_SubKept ==
    \A r \in 1..Len(nodes) :
        nodes[r].by = "sub" =>
            /\ SubShape(r)
            /\ SubOfLeaves(r) =>
                  /\ nodes[nodes[r].x].grad = grad0[nodes[r].x] + ONE
                  /\ nodes[nodes[nodes[r].y].x].grad =
                        grad0[nodes[nodes[r].y].x] - (ONE + grad0[nodes[r].y])
                  /\ grad0[nodes[r].y] = 0 =>
                        nodes[nodes[nodes[r].y].x].grad =
                            grad0[nodes[nodes[r].y].x] - ONE

\* a second backward call on the difference of two distinct leaves: the
\* product Value inside it has a gradient before the call
C7_Witness ==
    /\ SubOfLeaves(root)
    /\ grad0[nodes[root].y] # 0
    /\ grad0[nodes[nodes[root].y].x] # 0

\* C8: backward(root) runs the rule of root first and the rule of a Value
\* only after the rule of every consumer of it reachable from root, and
\* the grad a Value has when its rule runs is its final grad of the pass.
C8_Order ==
    Done =>
        LET R == Reach(nodes, root)
        IN  /\ proc # <<>> /\ proc[1].node = root
            /\ {proc[i].node : i \in DOMAIN proc} = R
            /\ \A i \in DOMAIN proc :
                  /\ \A c \in Consumers(nodes, R, proc[i].node) :
                        \E j \in 1..(i - 1) : proc[j].node = c
                  /\ nodes[proc[i].node].grad = proc[i].grad

\* a pass over a graph where a Value has two consumers, one of which is
\* itself an operand of the other
C8_Witness ==
    /\ Done
    /\ \E n, c, d \in Reach(nodes, root) :
          /\ c # d
          /\ n \in Operands(nodes, c)
          /\ n \in Operands(nodes, d)
          /\ c \in Operands(nodes, d)
          /\ nodes[n].op # "None"

\* C9: at every loss.backward() of the training loop every Value reachable
\* from loss has grad 0, and the zero_grad before it sets the grad of every
\* parameter to 0 and leaves the parameters' values as they are.
C9_ZeroBeforeBackward ==
    /\ [](tpc = "backward" =>
             \A n \in Reach(nodes, Len(nodes)) : nodes[n].grad = 0)
    /\ [][tpc = "zero" =>
             \A p \in 1..NumParams :
                nodes'[p].grad = 0 /\ nodes'[p].data = nodes[p].data]_vars

\* the loss.backward() of a later iteration: an earlier backward call and
\* an update have changed the parameters
C9_Witness ==
    /\ tpc = "backward"
    /\ iter >= 1
    /\ passes >= 1
    /\ \E p \in 1..NumParams : nodes[p].data \notin ParamData
    /\ \A p \in 1..NumParams : p \in Reach(nodes, Len(nodes))

\* C10: every operand of a Value was created before it, no Value is
\* reachable from itself, and a backward call has run its loop to the end
\* over at most as many entries as there are Values.
C10_Acyclic ==
    /\ \A v \in 1..Len(nodes) :
          /\ \A o \in Operands(nodes, v) : 1 <= o /\ o < v
          /\ v \notin ReachFrom(nodes, Operands(nodes, v))
    /\ Done => Len(topo) <= Len(nodes) /\ Len(proc) = Len(topo)

\* a backward call on a graph where one Value is both operands of another
C10_Witness ==
    /\ Done
    /\ \E v \in Reach(nodes, root) :
          nodes[v].op \in {"Sum", "Mul"} /\ nodes[v].x = nodes[v].y

\* the value and the producer edges of Value n are the same in h and g
SameShape(h, g, n) ==
    /\ g[n].data = h[n].data
    /\ g[n].op = h[n].op
    /\ g[n].x = h[n].x
    /\ g[n].y = h[n].y

\* a backward call: no Value is created, every Value keeps its value and
\* its producer edges, and a Value not reachable from root keeps its grad
BackwardFrame ==
    /\ Len(nodes') = Len(nodes)
    /\ \A n \in 1..Len(nodes) :
          /\ SameShape(nodes, nodes', n)
          /\ n \notin Reach(nodes, root') => nodes'[n].grad = nodes[n].grad

\* a builder call: Values are created, and every Value there was keeps its
\* value, its grad and its producer edges
BuilderFrame ==
    /\ Len(nodes') > Len(nodes)
    /\ \A n \in 1..Len(nodes) :
          SameShape(nodes, nodes', n) /\ nodes'[n].grad = nodes[n].grad

\* C11 as stated: a backward call changes only the grad of Values
\* reachable from root, and a builder call changes no Value there was and
\* creates Values of grad 0 only.
C11_Frame ==
    [][/\ passes' = passes + 1 => BackwardFrame
       /\ passes' = passes =>
             /\ BuilderFrame
             /\ \A n \in (Len(nodes) + 1)..Len(nodes') : nodes'[n].grad = 0]_vars

\* C11, amended: a backward call changes only the grad of Values reachable
\* from root, and a builder call changes no Value there was; the Values it
\* creates have grad 0, but for the leaf of new_with_grad, whose grad is
\* the one the caller gave.
C11_FrameSeeded ==
    [][/\ passes' = passes + 1 => BackwardFrame
       /\ passes' = passes =>
             /\ BuilderFrame
             /\ \A n \in (Len(nodes) + 1)..Len(nodes') :
                   nodes'[n].grad # 0 =>
                       /\ nodes'[n].op = "None"
                       /\ nodes'[n].by = "new"
                       /\ nodes'[n].grad \in LeafGrad]_vars

\* a backward call has left alone a Value not reachable from its root that
\* held what an earlier call gave it, on a graph with a leaf created with
\* a grad
C11_Witness ==
    /\ Done
    /\ \E n \in (1..Len(nodes)) \ Reach(nodes, root) :
          nodes[n].op # "None" /\ nodes[n].grad # 0 /\ nodes[n].grad = grad0[n]
    /\ \E l \in 1..Len(nodes) :
          nodes[l].op = "None" /\ nodes[l].by = "new" /\ grad0[l] \in LeafGrad

====
